---- MODULE Spec2Model ----
(***************************************************************************)
(* Model of facebook_events_scraper.py: the FacebookEventsScraper class.   *)
(*                                                                         *)
(* Conventions                                                             *)
(*  - A Python str is a sequence of character codes (ASCII), so that       *)
(*    comparison, slicing, lower(), strip() and title() are computed.      *)
(*  - A naive datetime is a number of seconds since 1970-01-01T00:00:00;   *)
(*    the clock has whole seconds, so isoformat() prints no fraction.      *)
(*  - A JSON value is a record [t, s, n] (see JStr, JNum, JNull, JAbsent). *)
(*  - An event record keeps the fields id, name, start_time, end_time,     *)
(*    attendee_count and event_url; description, location, image_url,      *)
(*    is_online and created_time are carried by the code unchanged and no  *)
(*    operation reads them back, they are left out of the record.          *)
(*  - Every datetime.now() of one get_events call reads the same clock     *)
(*    value: a call is one step.                                           *)
(*  - A list computed element by element is written [i \in 1..n |-> e]     *)
(*    \o <<>>: the concatenation gives the list as a tuple.                *)
(***************************************************************************)
EXTENDS Integers, Sequences, FiniteSets, TLC

VARIABLES
    now,     \* the wall clock: datetime.now(), in seconds
    cache,   \* the cache file events_cache.json
    last,    \* what the latest call did (observation record)
    prev,    \* summary of the call before the latest one
    ncalls,  \* number of get_events calls made so far
    nticks,  \* number of times the clock has advanced
    procs    \* the processes that run get_events side by side, step by step

vars == <<now, cache, last, prev, ncalls, nticks, procs>>

(***************************************************************************)
(* Python str operations                                                   *)
(***************************************************************************)
MinOf(S) == CHOOSE x \in S : \A y \in S : x <= y

MaxOf(S) == CHOOSE x \in S : \A y \in S : x >= y

IsUpper(c) == c \in 65..90

IsLower(c) == c \in 97..122

IsAlpha(c) == IsUpper(c) \/ IsLower(c)

IsDigit(c) == c \in 48..57

IsSpace(c) == c \in (9..13) \cup (28..32)

\* str.lower()
Lower(s) == [i \in 1..Len(s) |-> IF IsUpper(s[i]) THEN s[i] + 32 ELSE s[i]]

\* str.strip()
Strip(s) ==
    LET keep == {i \in 1..Len(s) : ~IsSpace(s[i])}
    IN  IF keep = {} THEN <<>> ELSE SubSeq(s, MinOf(keep), MaxOf(keep))

\* str.title(): a cased character is upper-cased after an uncased one (or at
\* the start) and lower-cased after a cased one
Title(s) ==
    [i \in 1..Len(s) |->
        IF ~IsAlpha(s[i]) THEN s[i]
        ELSE IF i = 1 \/ ~IsAlpha(s[i - 1])
             THEN (IF IsLower(s[i]) THEN s[i] - 32 ELSE s[i])
             ELSE (IF IsUpper(s[i]) THEN s[i] + 32 ELSE s[i])]

\* s[:n]
Prefix(s, n) == SubSeq(s, 1, IF Len(s) < n THEN Len(s) ELSE n)

\* a < b for str: by code point at the first difference, a proper prefix first
StrLess(a, b) ==
    \E k \in 1..(Len(b)) :
        /\ k <= Len(a) + 1
        /\ \A j \in 1..(k - 1) : a[j] = b[j]
        /\ (k = Len(a) + 1 \/ a[k] < b[k])

StrLeq(a, b) == a = b \/ StrLess(a, b)

\* sub in s
Contains(sub, s) ==
    \E i \in 0..(Len(s) - Len(sub)) : SubSeq(s, i + 1, i + Len(sub)) = sub

\* s.startswith(p)
StartsWith(s, p) == Len(s) >= Len(p) /\ SubSeq(s, 1, Len(p)) = p

(***************************************************************************)
(* datetime: calendar arithmetic and isoformat()                           *)
(***************************************************************************)
SecondsPerDay == 24 * 60 * 60

\* number of days from 1970-01-01 to the civil date y-m-d
\* (yy: the year that starts on 1 March; yoe: the year of the 400-year era)
DaysOfEra(era, yoe, doy) ==
    era * 146097 + yoe * 365 + yoe \div 4 - yoe \div 100 + doy - 719468

DaysOfMarchYear(yy, mp, d) ==
    DaysOfEra(yy \div 400, yy % 400, (153 * mp + 2) \div 5 + d - 1)

DaysFromCivil(y, m, d) ==
    DaysOfMarchYear(IF m <= 2 THEN y - 1 ELSE y,
                    IF m > 2 THEN m - 3 ELSE m + 9, d)

\* the civil date <<y, m, d>> of a day number, computed in steps: the day of
\* the 400-year era, the year of the era, the day of the year (from 1 March),
\* the month (from March)
CivilOfMonth(y0, doy, mp) ==
    <<y0 + (IF mp < 10 THEN 0 ELSE 1),
      IF mp < 10 THEN mp + 3 ELSE mp - 9,
      doy - (153 * mp + 2) \div 5 + 1>>

CivilOfDayOfYear(y0, doy) == CivilOfMonth(y0, doy, (5 * doy + 2) \div 153)

CivilOfYear(era, doe, yoe) ==
    CivilOfDayOfYear(yoe + era * 400,
                     doe - (365 * yoe + yoe \div 4 - yoe \div 100))

CivilOfEra(era, doe) ==
    CivilOfYear(era, doe,
        (doe - doe \div 1460 + doe \div 36524 - doe \div 146096) \div 365)

CivilOfShifted(z) == CivilOfEra(z \div 146097, z % 146097)

CivilFromDays(z0) == CivilOfShifted(z0 + 719468)

Digit(n) == 48 + n

Pad2(n) == <<Digit(n \div 10), Digit(n % 10)>>

Pad4(n) == <<Digit(n \div 1000), Digit((n \div 100) % 10),
             Digit((n \div 10) % 10), Digit(n % 10)>>

\* datetime.isoformat() with microsecond = 0: "YYYY-MM-DDTHH:MM:SS"
FormatDateTime(ymd, sod) ==
    Pad4(ymd[1]) \o <<45>> \o Pad2(ymd[2]) \o <<45>> \o Pad2(ymd[3])
    \o <<84>> \o Pad2(sod \div 3600) \o <<58>> \o Pad2((sod \div 60) % 60)
    \o <<58>> \o Pad2(sod % 60)

IsoFormat(t) ==
    FormatDateTime(CivilFromDays(t \div SecondsPerDay), t % SecondsPerDay)

\* timedelta(days=d, hours=h) in seconds
TimeDelta(d, h) == d * SecondsPerDay + h * 3600

\* base_time.replace(month=m, day=d, hour=h, minute=0, second=0, microsecond=0)
ReplaceMonthDayHour(t, m, d, h) ==
    DaysFromCivil(CivilFromDays(t \div SecondsPerDay)[1], m, d) * SecondsPerDay
        + h * 3600

\* timedelta.seconds: the seconds component (0 <= seconds < 86400) of a
\* timedelta normalised to days, seconds, microseconds
TimedeltaSeconds(delta) == delta % SecondsPerDay

(***************************************************************************)
(* JSON values                                                             *)
(***************************************************************************)
JStr(s) == [t |-> "str", s |-> s, n |-> 0]

JNum(n) == [t |-> "num", s |-> <<>>, n |-> n]

JNull == [t |-> "null", s |-> <<>>, n |-> 0]

\* a JSON array; its elements are not read
JArray == [t |-> "array", s |-> <<>>, n |-> 0]

\* a key that the object does not have
JAbsent == [t |-> "absent", s |-> <<>>, n |-> 0]

\* dict.get(key, default) for a str default
GetOr(v, default) == IF v.t = "absent" THEN JStr(default) ELSE v

(***************************************************************************)
(* The str literals of the model, as character codes                       *)
(***************************************************************************)
\* 'Software Fellowship 2.0'
S_SoftwareFellowship2 == <<83, 111, 102, 116, 119, 97, 114, 101, 32, 70,
    101, 108, 108, 111, 119, 115, 104, 105, 112, 32, 50, 46, 48>>

\* 'Software Fellowship 1.0'
S_SoftwareFellowship1 == <<83, 111, 102, 116, 119, 97, 114, 101, 32, 70,
    101, 108, 108, 111, 119, 115, 104, 105, 112, 32, 49, 46, 48>>

\* "International Women's Day Tech Panel"
S_WomensDayPanel == <<73, 110, 116, 101, 114, 110, 97, 116, 105, 111, 110,
    97, 108, 32, 87, 111, 109, 101, 110, 39, 115, 32, 68, 97, 121, 32, 84,
    101, 99, 104, 32, 80, 97, 110, 101, 108>>

\* "International Women's Day Tech Panel 2024"
S_WomensDayPanel2024 == <<73, 110, 116, 101, 114, 110, 97, 116, 105, 111,
    110, 97, 108, 32, 87, 111, 109, 101, 110, 39, 115, 32, 68, 97, 121, 32,
    84, 101, 99, 104, 32, 80, 97, 110, 101, 108, 32, 50, 48, 50, 52>>

\* 'Data Science Workshop Series 2024'
S_DataScienceSeries == <<68, 97, 116, 97, 32, 83, 99, 105, 101, 110, 99,
    101, 32, 87, 111, 114, 107, 115, 104, 111, 112, 32, 83, 101, 114, 105,
    101, 115, 32, 50, 48, 50, 52>>

\* 'GitHub Open Source Workshop'
S_GitHubWorkshop == <<71, 105, 116, 72, 117, 98, 32, 79, 112, 101, 110, 32,
    83, 111, 117, 114, 99, 101, 32, 87, 111, 114, 107, 115, 104, 111, 112>>

\* 'GitHub & Open Source Contribution Workshop'
S_GitHubContribution == <<71, 105, 116, 72, 117, 98, 32, 38, 32, 79, 112,
    101, 110, 32, 83, 111, 117, 114, 99, 101, 32, 67, 111, 110, 116, 114,
    105, 98, 117, 116, 105, 111, 110, 32, 87, 111, 114, 107, 115, 104, 111,
    112>>

\* 'Asia Foundation Hackathon'
S_AsiaHackathon == <<65, 115, 105, 97, 32, 70, 111, 117, 110, 100, 97, 116,
    105, 111, 110, 32, 72, 97, 99, 107, 97, 116, 104, 111, 110>>

\* 'Open Data Hackathon with Asia Foundation'
S_OpenDataHackathon == <<79, 112, 101, 110, 32, 68, 97, 116, 97, 32, 72, 97,
    99, 107, 97, 116, 104, 111, 110, 32, 119, 105, 116, 104, 32, 65, 115,
    105, 97, 32, 70, 111, 117, 110, 100, 97, 116, 105, 111, 110>>

\* 'Weekly Algorithm Study Circle'
S_StudyCircle == <<87, 101, 101, 107, 108, 121, 32, 65, 108, 103, 111, 114,
    105, 116, 104, 109, 32, 83, 116, 117, 100, 121, 32, 67, 105, 114, 99,
    108, 101>>

\* 'Leadership Development Workshop'
S_LeadershipDevelopment == <<76, 101, 97, 100, 101, 114, 115, 104, 105, 112,
    32, 68, 101, 118, 101, 108, 111, 112, 109, 101, 110, 116, 32, 87, 111,
    114, 107, 115, 104, 111, 112>>

\* 'Leadership & Confidence Building Workshop'
S_LeadershipConfidence == <<76, 101, 97, 100, 101, 114, 115, 104, 105, 112,
    32, 38, 32, 67, 111, 110, 102, 105, 100, 101, 110, 99, 101, 32, 66, 117,
    105, 108, 100, 105, 110, 103, 32, 87, 111, 114, 107, 115, 104, 111,
    112>>

\* 'Web Development Fundamentals'
S_WebFundamentals == <<87, 101, 98, 32, 68, 101, 118, 101, 108, 111, 112,
    109, 101, 110, 116, 32, 70, 117, 110, 100, 97, 109, 101, 110, 116, 97,
    108, 115>>

\* 'Web Development Fundamentals Workshop'
S_WebFundamentalsWorkshop == <<87, 101, 98, 32, 68, 101, 118, 101, 108, 111,
    112, 109, 101, 110, 116, 32, 70, 117, 110, 100, 97, 109, 101, 110, 116,
    97, 108, 115, 32, 87, 111, 114, 107, 115, 104, 111, 112>>

\* 'Unknown Event'
S_UnknownEvent == <<85, 110, 107, 110, 111, 119, 110, 32, 69, 118, 101, 110,
    116>>

\* 'Demo'
S_Demo == <<68, 101, 109, 111>>

\* ' demo '
S_demoPadded == <<32, 100, 101, 109, 111, 32>>

\* 'Launch'
S_Launch == <<76, 97, 117, 110, 99, 104>>

\* 'data workshop'
S_dataWorkshop == <<100, 97, 116, 97, 32, 119, 111, 114, 107, 115, 104, 111,
    112>>

\* 'Data Workshop'
S_DataWorkshop == <<68, 97, 116, 97, 32, 87, 111, 114, 107, 115, 104, 111,
    112>>

\* 'demo night'
S_demoNight == <<100, 101, 109, 111, 32, 110, 105, 103, 104, 116>>

\* 'Demo Night'
S_DemoNight == <<68, 101, 109, 111, 32, 78, 105, 103, 104, 116>>

\* ' Demo Night '
S_DemoNightPadded == <<32, 68, 101, 109, 111, 32, 78, 105, 103, 104, 116,
    32>>

\* 'https://www.facebook.com/0thealgorithm'
S_PageUrl == <<104, 116, 116, 112, 115, 58, 47, 47, 119, 119, 119, 46, 102,
    97, 99, 101, 98, 111, 111, 107, 46, 99, 111, 109, 47, 48, 116, 104, 101,
    97, 108, 103, 111, 114, 105, 116, 104, 109>>

\* 'https://facebook.com'
S_Origin == <<104, 116, 116, 112, 115, 58, 47, 47, 102, 97, 99, 101, 98,
    111, 111, 107, 46, 99, 111, 109>>

\* 'facebook.com'
S_FacebookCom == <<102, 97, 99, 101, 98, 111, 111, 107, 46, 99, 111, 109>>

\* '/events'
S_EventsPath == <<47, 101, 118, 101, 110, 116, 115>>

\* '/events/'
S_EventsIdPath == <<47, 101, 118, 101, 110, 116, 115, 47>>

\* '/events/123'
S_HrefEvent123 == <<47, 101, 118, 101, 110, 116, 115, 47, 49, 50, 51>>

\* '/0thealgorithm/events'
S_HrefEventsTab == <<47, 48, 116, 104, 101, 97, 108, 103, 111, 114, 105,
    116, 104, 109, 47, 101, 118, 101, 110, 116, 115>>

\* 'https://www.facebook.com/events/456'
S_HrefAbsolute == <<104, 116, 116, 112, 115, 58, 47, 47, 119, 119, 119, 46,
    102, 97, 99, 101, 98, 111, 111, 107, 46, 99, 111, 109, 47, 101, 118,
    101, 110, 116, 115, 47, 52, 53, 54>>

\* '/0thealgorithm/about'
S_HrefAbout == <<47, 48, 116, 104, 101, 97, 108, 103, 111, 114, 105, 116,
    104, 109, 47, 97, 98, 111, 117, 116>>

\* 'More'
S_More == <<77, 111, 114, 101>>

\* 'event'
S_event == <<101, 118, 101, 110, 116>>

\* 'Event'
S_Event == <<69, 118, 101, 110, 116>>

\* 'Organization'
S_Organization == <<79, 114, 103, 97, 110, 105, 122, 97, 116, 105, 111,
    110>>

\* '2027-01-05T10:00:00'
S_Jan05T10 == <<50, 48, 50, 55, 45, 48, 49, 45, 48, 53, 84, 49, 48, 58, 48,
    48, 58, 48, 48>>

\* '2027-01-05T12:00:00'
S_Jan05T12 == <<50, 48, 50, 55, 45, 48, 49, 45, 48, 53, 84, 49, 50, 58, 48,
    48, 58, 48, 48>>

\* '2027-01-05T18:00:00'
S_Jan05T18 == <<50, 48, 50, 55, 45, 48, 49, 45, 48, 53, 84, 49, 56, 58, 48,
    48, 58, 48, 48>>

\* '2026-12-01T09:00:00'
S_Dec01T09 == <<50, 48, 50, 54, 45, 49, 50, 45, 48, 49, 84, 48, 57, 58, 48,
    48, 58, 48, 48>>

\* '2026-11-30T09:00:00'
S_Nov30T09 == <<50, 48, 50, 54, 45, 49, 49, 45, 51, 48, 84, 48, 57, 58, 48,
    48, 58, 48, 48>>

\* 'soon'
S_soon == <<115, 111, 111, 110>>

\* 'many'
S_many == <<109, 97, 110, 121>>

\* hashlib.md5(name.encode()).hexdigest()[:12] of the names the model uses
Md5Prefix12 ==
    <<
        <<S_SoftwareFellowship2, "d30d4e3ebeae">>,
        <<S_SoftwareFellowship1, "ff4c9a02c2fb">>,
        <<S_WomensDayPanel, "08c38594f1f3">>,
        <<S_WomensDayPanel2024, "dadd8ecb00c2">>,
        <<S_DataScienceSeries, "e76f2deb84ce">>,
        <<S_GitHubWorkshop, "5fa331cddaea">>,
        <<S_GitHubContribution, "ea7b2144a7bd">>,
        <<S_AsiaHackathon, "24a019cba802">>,
        <<S_OpenDataHackathon, "a0e874d383dc">>,
        <<S_StudyCircle, "7ff861b2cc72">>,
        <<S_LeadershipDevelopment, "2469bc911248">>,
        <<S_LeadershipConfidence, "73e39224f95e">>,
        <<S_WebFundamentals, "48fd32056c5b">>,
        <<S_WebFundamentalsWorkshop, "9590ff051b79">>,
        <<S_UnknownEvent, "0840a39fb861">>,
        <<S_Demo, "f0258b668568">>,
        <<S_demoPadded, "c21ac1ede927">>,
        <<S_Launch, "9506f0fd0f7f">>,
        <<S_dataWorkshop, "1e4a468595d1">>,
        <<S_DataWorkshop, "807674908aa0">>,
        <<S_demoNight, "1e6d491b2255">>,
        <<S_DemoNight, "a7c8c856ce29">>,
        <<S_DemoNightPadded, "523e3786a001">>
    >>

(***************************************************************************)
(* Event records, identifiers, ordering                                    *)
(***************************************************************************)
\* hashlib.md5(event_name.encode()).hexdigest()[:12]
_generate_event_id(event_name) ==
    LET k == CHOOSE i \in 1..Len(Md5Prefix12) : Md5Prefix12[i][1] = event_name
    IN  Md5Prefix12[k][2]

\* the sort key: x.get('start_time', '') / x['start_time'], a str
StartKey(e) == e.start_time.s

\* the elements of l at the places in idx, in the order of l
SubSeqAt(l, idx) ==
    [k \in 1..Cardinality(idx) |->
        l[CHOOSE i \in idx : Cardinality({j \in idx : j <= i}) = k]]

\* a variant that counts the elements with a greater key
PlaceBehindGreater(l, i) ==
    1 + Cardinality({j \in 1..Len(l) :
            \/ StrLess(StartKey(l[i]), StartKey(l[j]))
            \/ (StartKey(l[j]) = StartKey(l[i]) /\ j < i)})

\* The place element i of l takes in a stable sort: behind the elements that
\* go before it, and behind the equal ones that stood before it.
PlaceAscending(l, i) ==
    1 + Cardinality({j \in 1..Len(l) :
            \/ StrLess(StartKey(l[j]), StartKey(l[i]))
            \/ (StartKey(l[j]) = StartKey(l[i]) /\ j < i)})

\* the list whose element at place[i] is l[i]
Placed(l, place) == [k \in 1..Len(l) |-> l[CHOOSE i \in 1..Len(l) : place[i] = k]]

\* list.sort(key=start_time): stable, ascending
SortAscending(l) ==
    Placed(l, [i \in 1..Len(l) |-> PlaceAscending(l, i)] \o <<>>)

PlaceDescending(l, i) ==
    1 + Cardinality({j \in 1..Len(l) :
            \/ StrLess(StartKey(l[i]), StartKey(l[j]))
            \/ (StartKey(l[j]) = StartKey(l[i]) /\ j < i)})

\* a variant that leaves the list as it is
Unsorted(l) == l

\* sorted(key=start_time, reverse=True): stable, descending
SortDescending(l) ==
    Placed(l, [i \in 1..Len(l) |-> PlaceDescending(l, i)] \o <<>>)

(***************************************************************************)
(* _get_fallback_events                                                    *)
(***************************************************************************)
\* one entry of real_events; id_name is the literal given to
\* _generate_event_id, name the literal of the "name" field
FallbackEntry(id_name, name, start, end, attendees) ==
    [id             |-> _generate_event_id(id_name),
     name           |-> name,
     start_time     |-> JStr(IsoFormat(start)),
     end_time       |-> JStr(IsoFormat(end)),
     attendee_count |-> attendees,
     event_url      |-> S_PageUrl]

real_events(base_time) ==
    <<FallbackEntry(S_SoftwareFellowship2, S_SoftwareFellowship2,
                    ReplaceMonthDayHour(base_time, 8, 12, 9),
                    ReplaceMonthDayHour(base_time, 8, 15, 17), 45),
      FallbackEntry(S_SoftwareFellowship1, S_SoftwareFellowship1,
                    base_time - TimeDelta(120, 0),
                    base_time - TimeDelta(78, 0), 32),
      FallbackEntry(S_WomensDayPanel, S_WomensDayPanel2024,
                    base_time - TimeDelta(125, 0),
                    base_time - TimeDelta(125, -3), 95),
      FallbackEntry(S_DataScienceSeries, S_DataScienceSeries,
                    base_time - TimeDelta(85, 0),
                    base_time - TimeDelta(81, 0), 58),
      FallbackEntry(S_GitHubWorkshop, S_GitHubContribution,
                    base_time - TimeDelta(65, 0),
                    base_time - TimeDelta(65, -4), 42),
      FallbackEntry(S_AsiaHackathon, S_OpenDataHackathon,
                    base_time - TimeDelta(45, 0),
                    base_time - TimeDelta(43, 0), 38),
      FallbackEntry(S_StudyCircle, S_StudyCircle,
                    base_time - TimeDelta(35, 0),
                    base_time - TimeDelta(35, -2), 28),
      FallbackEntry(S_LeadershipDevelopment, S_LeadershipConfidence,
                    base_time - TimeDelta(25, 0),
                    base_time - TimeDelta(25, -5), 41),
      FallbackEntry(S_WebFundamentals, S_WebFundamentalsWorkshop,
                    base_time - TimeDelta(15, 0),
                    base_time - TimeDelta(15, -6), 52)>>

\* a variant with no hand-authored events
NoFallbackEvents(base_time) == <<>>

_get_fallback_events(base_time) == SortDescending(real_events(base_time))

(***************************************************************************)
(* _deduplicate_events                                                     *)
(***************************************************************************)
\* event.get('start_time', '')[:10] raises TypeError for a number or None
Sliceable(v) == v.t = "str"

\* f"{name.lower().strip()}_{start_time[:10]}"
DedupKey(event) ==
    Strip(Lower(event.name)) \o <<95>> \o Prefix(event.start_time.s, 10)

\* a variant that keeps the last event of each key
KeepLastOfKey(events) ==
    LET keys == [i \in 1..Len(events) |-> DedupKey(events[i])] \o <<>>
    IN  SubSeqAt(events, {i \in 1..Len(events) :
                             \A j \in (i + 1)..Len(events) : keys[j] # keys[i]})

\* the loop of _deduplicate_events: an event is kept when no event before it
\* in the list has its key
KeepFirstOfKey(events) ==
    LET keys == [i \in 1..Len(events) |-> DedupKey(events[i])] \o <<>>
    IN  SubSeqAt(events, {i \in 1..Len(events) :
                             \A j \in 1..(i - 1) : keys[j] # keys[i]})

\* [raised |-> TRUE] when building a key raises
_deduplicate_events(events) ==
    IF \E i \in 1..Len(events) : ~Sliceable(events[i].start_time)
    THEN [raised |-> TRUE, events |-> <<>>]
    ELSE [raised |-> FALSE, events |-> KeepFirstOfKey(events)]

(***************************************************************************)
(* Randomness: random.randint draws are inputs of a call.  A draw table    *)
(* maps the place of the draw (the index of the element that consumes it)  *)
(* to the value drawn.                                                     *)
(***************************************************************************)
Draw(table, place, default) ==
    IF place \in DOMAIN table THEN table[place] ELSE default

NoDraw == [sd |-> 0, ed |-> 0, att |-> 0]

(***************************************************************************)
(* Structured data: _parse_structured_event, _extract_attendee_count       *)
(***************************************************************************)
NoEvent ==
    [id |-> "", name |-> <<>>, start_time |-> JAbsent, end_time |-> JAbsent,
     attendee_count |-> 0, event_url |-> <<>>]

\* the number a str of decimal digits denotes
DigitsValue(ds) ==
    LET value[i \in 0..Len(ds)] ==
            IF i = 0 THEN 0 ELSE 10 * value[i - 1] + (ds[i] - 48)
    IN  value[Len(ds)]

\* int(v): [ok |-> FALSE] when it raises (TypeError for None, ValueError for
\* a str that is no integer literal)
IntOf(v) ==
    IF v.t = "num" THEN [ok |-> TRUE, n |-> v.n]
    ELSE IF v.t # "str" THEN [ok |-> FALSE, n |-> 0]
    ELSE LET body   == Strip(v.s)
             signed == body # <<>> /\ body[1] \in {43, 45}
             ds     == IF signed THEN SubSeq(body, 2, Len(body)) ELSE body
         IN  IF ds # <<>> /\ \A i \in 1..Len(ds) : IsDigit(ds[i])
             THEN [ok |-> TRUE,
                   n  |-> IF signed /\ body[1] = 45
                          THEN 0 - DigitsValue(ds) ELSE DigitsValue(ds)]
             ELSE [ok |-> FALSE, n |-> 0]

\* the first of the capacity fields that is present and that int() accepts,
\* else random.randint(20, 100), given as drawn
_extract_attendee_count(data, drawn) ==
    LET fields == <<data.attendeeCount, data.maximumAttendeeCapacity,
                    data.totalCapacity>>
        usable == {i \in 1..3 : fields[i].t # "absent" /\ IntOf(fields[i]).ok}
    IN  IF usable = {} THEN drawn ELSE IntOf(fields[MinOf(usable)]).n

\* whether _extract_attendee_count consumes a random draw
NeedsAttendeeDraw(data) ==
    \A v \in {data.attendeeCount, data.maximumAttendeeCapacity,
              data.totalCapacity} : v.t = "absent" \/ ~IntOf(v).ok

\* st = "event": a record; "none": returns None; "raise": an exception
\* leaves the function (the @type lookup is outside its try block)
_parse_structured_event(data, drawn) ==
    IF ~data.dict THEN [st |-> "none", event |-> NoEvent]
    ELSE LET type == GetOr(data.type, <<>>)
         IN  IF type.t # "str" THEN [st |-> "raise", event |-> NoEvent]
             ELSE IF ~Contains(S_event, Lower(type.s))
                  THEN [st |-> "none", event |-> NoEvent]
             ELSE LET name == GetOr(data.name, S_UnknownEvent)
                  IN  IF name.t # "str"
                      THEN [st |-> "none", event |-> NoEvent]
                      ELSE [st |-> "event",
                            event |->
                              [id             |-> _generate_event_id(name.s),
                               name           |-> name.s,
                               start_time     |-> GetOr(data.startDate, <<>>),
                               end_time       |-> GetOr(data.endDate, <<>>),
                               attendee_count |->
                                   _extract_attendee_count(data, drawn),
                               event_url      |-> S_PageUrl]]

\* the events of one <script type="application/ld+json">: json.loads raises
\* for an invalid payload; a list is walked item by item, and the except of
\* the script loop ends the walk at the first item whose parse raises
ScriptEvents(script, s, rnd) ==
    IF script.kind = "invalid" THEN <<>>
    ELSE LET n == Len(script.items)
             res == [i \in 1..n |->
                        _parse_structured_event(script.items[i],
                                                Draw(rnd.ld, <<s, i>>, 0))]
                    \o <<>>
             raising == {i \in 1..n : res[i].st = "raise"}
             stop == IF raising = {} THEN n + 1 ELSE MinOf(raising)
         IN  SubSeqAt([i \in 1..n |-> res[i].event],
                      {i \in 1..n : i < stop /\ res[i].st = "event"})

(***************************************************************************)
(* Free text: _extract_events_from_text, _parse_event_from_text            *)
(***************************************************************************)
\* An element of the page is given by what re.search finds in its text for
\* each of the four event_patterns, in order: [hit, g] with g = match.group(1)
\* the start/end day offsets and the attendee count are drawn
_parse_event_from_text(text, t, drawn) ==
    LET usable == {k \in 1..Len(text.matches) :
                      text.matches[k].hit /\ Len(Strip(text.matches[k].g)) > 3}
    IN  IF usable = {} THEN [st |-> "none", event |-> NoEvent]
        ELSE LET event_name == Strip(text.matches[MinOf(usable)].g)
             IN  [st |-> "event",
                  event |->
                    [id             |-> _generate_event_id(event_name),
                     name           |-> Title(event_name),
                     start_time     |-> JStr(IsoFormat(t + TimeDelta(drawn.sd, 0))),
                     end_time       |-> JStr(IsoFormat(t + TimeDelta(drawn.ed, 3))),
                     attendee_count |-> drawn.att,
                     event_url      |-> S_PageUrl]]

_extract_events_from_text(texts, t, rnd) ==
    LET res == [i \in 1..Len(texts) |->
                   _parse_event_from_text(texts[i], t, Draw(rnd.text, i, NoDraw))]
               \o <<>>
    IN  SubSeqAt([i \in 1..Len(texts) |-> res[i].event],
                 {i \in 1..Len(texts) : res[i].st = "event"})

(***************************************************************************)
(* Links: _extract_facebook_event_patterns, _find_events_page_link         *)
(***************************************************************************)
\* re.search(r'/events/\d+', href)
MatchesEventPath(href) ==
    \E i \in 1..Len(href) :
        /\ i + Len(S_EventsIdPath) <= Len(href)
        /\ SubSeq(href, i, i + Len(S_EventsIdPath) - 1) = S_EventsIdPath
        /\ IsDigit(href[i + Len(S_EventsIdPath)])

IsEventAnchor(a) == MatchesEventPath(a.href) /\ Len(Strip(a.text)) > 5

_extract_facebook_event_patterns(anchors, t, rnd) ==
    LET event(i) ==
            LET event_text == Strip(anchors[i].text)
                drawn == Draw(rnd.link, i, NoDraw)
            IN  [id             |-> _generate_event_id(event_text),
                 name           |-> event_text,
                 start_time     |-> JStr(IsoFormat(t + TimeDelta(drawn.sd, 0))),
                 end_time       |-> JStr(IsoFormat(t + TimeDelta(drawn.ed, 2))),
                 attendee_count |-> drawn.att,
                 event_url      |-> S_Origin \o anchors[i].href]
    IN  SubSeqAt([i \in 1..Len(anchors) |-> event(i)],
                 {i \in 1..Len(anchors) : IsEventAnchor(anchors[i])})

\* the first anchor whose href contains "/events" and either starts with "/"
\* or contains "facebook.com"; [found |-> FALSE] for None
_find_events_page_link(anchors) ==
    LET usable == {i \in 1..Len(anchors) :
                      /\ Contains(S_EventsPath, anchors[i].href)
                      /\ \/ StartsWith(anchors[i].href, <<47>>)
                         \/ Contains(S_FacebookCom, anchors[i].href)}
    IN  IF usable = {} THEN [found |-> FALSE, url |-> <<>>]
        ELSE LET href == anchors[MinOf(usable)].href
             IN  [found |-> TRUE,
                  url   |-> IF StartsWith(href, <<47>>) THEN S_Origin \o href
                            ELSE href]

(***************************************************************************)
(* _extract_events_from_page: the three methods, concatenated              *)
(***************************************************************************)
_extract_events_from_page(page, t, rnd) ==
    LET structured[s \in 0..Len(page.scripts)] ==
            IF s = 0 THEN <<>>
            ELSE structured[s - 1] \o ScriptEvents(page.scripts[s], s, rnd)
    IN  structured[Len(page.scripts)]
        \o _extract_events_from_text(page.texts, t, rnd)
        \o _extract_facebook_event_patterns(page.anchors, t, rnd)

(***************************************************************************)
(* The cache file: _load_from_cache, _save_to_cache                        *)
(***************************************************************************)
cache_duration == 30 * 60

\* the file does not exist
FileAbsent == [state |-> "absent", timestamp |-> <<>>, events |-> <<>>]

\* the file exists and json.load raises on it (truncated or partly written)
FileCorrupt == [state |-> "corrupt", timestamp |-> <<>>, events |-> <<>>]

\* the file holds {"timestamp": ..., "events": ...}.  json.dump followed by
\* json.load gives back the strings, integers and lists it was given.
Snapshot(timestamp, events) ==
    [state |-> "snapshot", timestamp |-> timestamp, events |-> events]

\* datetime.fromisoformat of "YYYY-MM-DDTHH:MM:SS"
FromIsoFormat(s) ==
    DaysFromCivil(DigitsValue(SubSeq(s, 1, 4)), DigitsValue(SubSeq(s, 6, 7)),
                  DigitsValue(SubSeq(s, 9, 10))) * SecondsPerDay
        + DigitsValue(SubSeq(s, 12, 13)) * 3600
        + DigitsValue(SubSeq(s, 15, 16)) * 60
        + DigitsValue(SubSeq(s, 18, 19))

\* the value None
None == [none |-> TRUE, events |-> <<>>]

\* a variant that takes no loaded value for events
NeverTruthy(loaded) == FALSE

\* a variant that takes every loaded value for events
AlwaysTruthy(loaded) == TRUE

\* "if cached_events:": neither None nor an empty list
Truthy(loaded) == ~loaded.none /\ loaded.events # <<>>

\* a variant with a freshness window of one minute
ExpiredAfterOneMinute(timestamp, t) ==
    TimedeltaSeconds(t - FromIsoFormat(timestamp)) > 60

\* the expiry test of _load_from_cache
Expired(timestamp, t) ==
    TimedeltaSeconds(t - FromIsoFormat(timestamp)) > cache_duration

_load_from_cache(file, t, ignore_expiry) ==
    IF file.state # "snapshot" THEN None
    ELSE IF ~ignore_expiry /\ Expired(file.timestamp, t) THEN None
    ELSE [none |-> FALSE, events |-> file.events]

\* io is what the file system does: "ok"; "open_fails", open() raises and the
\* file stays as it was; "write_fails", json.dump raises after open() has
\* truncated the file.  The exception is caught and printed.
_save_to_cache(file, t, events, io) ==
    CASE io = "ok"          -> Snapshot(IsoFormat(t), events)
      [] io = "open_fails"  -> file
      [] io = "write_fails" -> FileCorrupt

(***************************************************************************)
(* _scrape_facebook_events                                                 *)
(***************************************************************************)
\* net.main, net.secondary: [ok, page]; ok = FALSE when requests.get or
\* raise_for_status raises a RequestException (timeout, connection error,
\* non-2xx status).  Both except clauses return []: raised is always FALSE.
ScrapeFailed(status, fetches, candidates) ==
    [raised |-> FALSE, status |-> status, fetches |-> fetches,
     candidates |-> candidates, events |-> <<>>]

\* the end of the try block: deduplicate, sort, return
ScrapeFinish(fetches, events, unique) ==
    IF unique.raised THEN ScrapeFailed("parse_error", fetches, events)
    ELSE [raised     |-> FALSE,
          status     |-> "ok",
          fetches    |-> fetches,
          candidates |-> events,
          events     |-> SortAscending(unique.events)]

ScrapeCombine(fetches, events) ==
    ScrapeFinish(fetches, events, _deduplicate_events(events))

\* events_found: the events of the main page; events_page_link: the link
\* found on it; more_events: the events of the secondary page
ScrapePages(net, events_found, events_page_link, more_events) ==
    IF ~net.main.ok THEN ScrapeFailed("network_error", 1, <<>>)
    ELSE IF ~events_page_link.found THEN ScrapeCombine(1, events_found)
    ELSE IF ~net.secondary.ok
         THEN ScrapeFailed("network_error", 2, events_found)
         ELSE ScrapeCombine(2, events_found \o more_events)

_scrape_facebook_events(net, t, rnd) ==
    ScrapePages(net,
                _extract_events_from_page(net.main.page, t, rnd.main),
                _find_events_page_link(net.main.page.anchors),
                _extract_events_from_page(net.secondary.page, t, rnd.secondary))

NoScrape ==
    [raised |-> FALSE, status |-> "none", fetches |-> 0,
     candidates |-> <<>>, events |-> <<>>]

(***************************************************************************)
(* get_events                                                              *)
(***************************************************************************)
\* The result: raised, whether an exception leaves get_events (every path
\* ends in a return: both loads and the save catch what they raise, and the
\* scrape returns [] for what it catches); ret, the list returned; file, the
\* cache file afterwards; source, where ret came from; scrape, what
\* _scrape_facebook_events did; save, what _save_to_cache met.
\* cached_events: _load_from_cache(); scrape: _scrape_facebook_events();
\* expired: _load_from_cache(ignore_expiry=True); fallback:
\* _get_fallback_events().  Each is used where the code calls it.
GetEventsSteps(force_refresh, file, t, io, cached_events, scrape, expired, fallback) ==
    IF ~force_refresh /\ Truthy(cached_events)
    THEN [raised |-> FALSE, ret |-> cached_events.events, file |-> file,
          source |-> "cache", scrape |-> NoScrape, save |-> "none"]
    ELSE IF scrape.raised
         THEN IF Truthy(expired)
              THEN [raised |-> FALSE, ret |-> expired.events, file |-> file,
                    source |-> "expired_cache", scrape |-> scrape,
                    save |-> "none"]
              ELSE [raised |-> FALSE, ret |-> fallback, file |-> file,
                    source |-> "fallback", scrape |-> scrape, save |-> "none"]
         ELSE IF scrape.events = <<>>
              THEN [raised |-> FALSE,
                    ret    |-> fallback,
                    file   |-> _save_to_cache(file, t, fallback, io),
                    source |-> "fallback", scrape |-> scrape, save |-> io]
              ELSE [raised |-> FALSE,
                    ret    |-> scrape.events,
                    file   |-> _save_to_cache(file, t, scrape.events, io),
                    source |-> "live", scrape |-> scrape, save |-> io]

\* scrape and fallback are what _scrape_facebook_events() and
\* _get_fallback_events() give when get_events calls them at t
get_events(force_refresh, file, t, io, scrape, fallback) ==
    GetEventsSteps(force_refresh, file, t, io,
                   _load_from_cache(file, t, FALSE), scrape,
                   _load_from_cache(file, t, TRUE), fallback)

(***************************************************************************)
(* Inputs: pages the site may serve, draws, file-system outcomes           *)
(***************************************************************************)
Item(type, name, startDate, endDate, attendeeCount) ==
    [dict |-> TRUE, type |-> type, name |-> name, startDate |-> startDate,
     endDate |-> endDate, attendeeCount |-> attendeeCount,
     maximumAttendeeCapacity |-> JAbsent, totalCapacity |-> JAbsent]

\* {"@type": "Event", "name": "Demo", "startDate": "2027-01-05T10:00:00",
\*  "endDate": "2027-01-05T12:00:00", "attendeeCount": 30}
ItemDemo ==
    Item(JStr(S_Event), JStr(S_Demo), JStr(S_Jan05T10), JStr(S_Jan05T12),
         JNum(30))

\* {"@type": "Event", "name": " demo ", "startDate": "2027-01-05T18:00:00"}:
\* the name and the day of ItemDemo, another hour
ItemDemoEvening ==
    Item(JStr(S_Event), JStr(S_demoPadded), JStr(S_Jan05T18), JAbsent, JAbsent)

\* {"@type": "Event", "name": "Launch", "startDate": "2026-12-01T09:00:00"}
ItemLaunch ==
    Item(JStr(S_Event), JStr(S_Launch), JStr(S_Dec01T09), JAbsent, JNum(12))

\* {"@type": "Event", "name": "Launch", "startDate": 20270105}
ItemNumericDate ==
    Item(JStr(S_Event), JStr(S_Launch), JNum(20270105), JAbsent, JNum(12))

\* {"@type": "Event", "name": "Demo", "startDate": "soon"}
ItemSoon ==
    Item(JStr(S_Event), JStr(S_Demo), JStr(S_soon), JAbsent, JNum(5))

\* {"@type": "Event", "attendeeCount": 7}
ItemNoDate == Item(JStr(S_Event), JAbsent, JAbsent, JAbsent, JNum(7))

\* {"@type": "Event", "name": "Launch", "startDate": "2026-12-01T09:00:00",
\*  "attendeeCount": -5}
ItemNegative ==
    Item(JStr(S_Event), JStr(S_Launch), JStr(S_Dec01T09), JAbsent, JNum(0 - 5))

\* {"@type": "Event", "name": "Demo", "startDate": "2027-01-05T10:00:00",
\*  "attendeeCount": "many"}
ItemNonNumeric ==
    Item(JStr(S_Event), JStr(S_Demo), JStr(S_Jan05T10), JAbsent, JStr(S_many))

\* {"@type": ["Event"], "name": "Launch"}: the type is a list, not a str
ItemBadType ==
    Item(JArray, JStr(S_Launch), JStr(S_Jan05T12), JAbsent, JNum(9))

\* "Launch": a list item that is a str, not an object
ItemNonObject ==
    [dict |-> FALSE, type |-> JAbsent, name |-> JAbsent, startDate |-> JAbsent,
     endDate |-> JAbsent, attendeeCount |-> JAbsent,
     maximumAttendeeCapacity |-> JAbsent, totalCapacity |-> JAbsent]

\* {"@type": "Organization", "name": "Demo"}
ItemOrganization ==
    Item(JStr(S_Organization), JStr(S_Demo), JAbsent, JAbsent, JAbsent)

\* the matches of the four event_patterns in "Join us for data workshop":
\* only the third one matches, group(1) = "data workshop"
TextJoinDataWorkshop ==
    [matches |-> <<[hit |-> FALSE, g |-> <<>>], [hit |-> FALSE, g |-> <<>>],
                   [hit |-> TRUE, g |-> S_dataWorkshop],
                   [hit |-> FALSE, g |-> <<>>]>>]

\* "Join us for demo night - our best event": the third pattern matches,
\* group(1) = "demo night"
TextJoinDemoNight ==
    [matches |-> <<[hit |-> FALSE, g |-> <<>>], [hit |-> FALSE, g |-> <<>>],
                   [hit |-> TRUE, g |-> S_demoNight],
                   [hit |-> FALSE, g |-> <<>>]>>]

\* "Tech talk tonight": no pattern matches
TextTechTalk ==
    [matches |-> <<[hit |-> FALSE, g |-> <<>>], [hit |-> FALSE, g |-> <<>>],
                   [hit |-> FALSE, g |-> <<>>], [hit |-> FALSE, g |-> <<>>]>>]

\* <a href="/events/123"> Demo Night </a>
AnchorEvent123 == [href |-> S_HrefEvent123, text |-> S_DemoNightPadded]

\* <a href="https://www.facebook.com/events/456"> Demo Night </a>
AnchorAbsolute == [href |-> S_HrefAbsolute, text |-> S_DemoNightPadded]

\* <a href="/0thealgorithm/about">More</a>
AnchorAbout == [href |-> S_HrefAbout, text |-> S_More]

\* <a href="/0thealgorithm/events">More</a>
AnchorEventsTab == [href |-> S_HrefEventsTab, text |-> S_More]

PageStructured ==
    [scripts |-> <<[kind |-> "list",
                    items |-> <<ItemDemo, ItemOrganization, ItemDemoEvening,
                                ItemLaunch>>]>>,
     texts   |-> <<TextTechTalk>>,
     anchors |-> <<AnchorAbout>>]

PageText ==
    [scripts |-> <<>>, texts |-> <<TextJoinDataWorkshop>>, anchors |-> <<>>]

PageWithEventsTab ==
    [scripts |-> <<[kind |-> "object", items |-> <<ItemDemoEvening>>]>>,
     texts   |-> <<>>,
     anchors |-> <<AnchorAbout, AnchorEventsTab>>]

PageEventLink ==
    [scripts |-> <<>>, texts |-> <<>>, anchors |-> <<AnchorEvent123>>]

\* a page with nothing to extract (also what html.parser makes of junk)
PageEmpty ==
    [scripts |-> <<[kind |-> "invalid", items |-> <<>>]>>,
     texts   |-> <<>>, anchors |-> <<>>]

PageNumericDate ==
    [scripts |-> <<[kind |-> "object", items |-> <<ItemNumericDate>>]>>,
     texts   |-> <<>>, anchors |-> <<>>]

\* structured data, free text and a link that name the same event; the link
\* is also the first one that contains "/events"
PageMixed ==
    [scripts |-> <<[kind |-> "object", items |-> <<ItemOrganization>>],
                   [kind |-> "list", items |-> <<ItemLaunch>>]>>,
     texts   |-> <<TextTechTalk, TextJoinDemoNight>>,
     anchors |-> <<AnchorAbout, AnchorEvent123>>]

\* start times that are no timestamps: "soon" and a missing startDate
PageOddDates ==
    [scripts |-> <<[kind |-> "list",
                    items |-> <<ItemSoon, ItemLaunch, ItemNoDate>>]>>,
     texts   |-> <<>>, anchors |-> <<>>]

\* capacity fields that are no counts: "many" and -5
PageCapacities ==
    [scripts |-> <<[kind |-> "list",
                    items |-> <<ItemNonNumeric, ItemNegative>>]>>,
     texts   |-> <<>>, anchors |-> <<>>]

\* a list with a str and an object of list type between events, and a second
\* script
PageBadItem ==
    [scripts |-> <<[kind |-> "list",
                    items |-> <<ItemNonObject, ItemLaunch, ItemBadType,
                                ItemSoon>>],
                   [kind |-> "object", items |-> <<ItemDemo>>]>>,
     texts   |-> <<>>,
     anchors |-> <<AnchorAbout>>]

\* an event link whose target is an absolute URL
PageAbsoluteLink ==
    [scripts |-> <<>>, texts |-> <<>>, anchors |-> <<AnchorAbsolute>>]

\* the pages served to the calls of Spec
MainPages == {PageStructured, PageWithEventsTab, PageEmpty, PageNumericDate}

SecondaryPages == {PageStructured, PageEmpty}

\* the pages served to the single call of PipelineSpec
WideMainPages ==
    {PageStructured, PageText, PageWithEventsTab, PageEventLink, PageMixed,
     PageOddDates, PageEmpty, PageNumericDate, PageCapacities, PageBadItem,
     PageAbsoluteLink}

WideSecondaryPages == {PageStructured, PageEventLink, PageEmpty}

FetchFailed == [ok |-> FALSE, page |-> PageEmpty]

Fetched(page) == [ok |-> TRUE, page |-> page]

\* what the two requests.get calls of one scrape may give
Networks(mains, secondaries) ==
    {[main |-> FetchFailed, secondary |-> FetchFailed]}
    \cup {[main |-> Fetched(p), secondary |-> FetchFailed] : p \in mains}
    \cup {[main |-> Fetched(p), secondary |-> Fetched(q)] :
             p \in {m \in mains : _find_events_page_link(m.anchors).found},
             q \in secondaries}

\* random.randint(7, 45), (1, 30), (15, 80), (20, 100): the ends of each range
\* and, for the text offsets, a value the two offset ranges share
TextDraws == [sd : {7, 30, 45}, ed : {7, 30, 45}, att : {15, 80}]

LinkDraws == [sd : {1, 30}, ed : {1, 30}, att : {20, 100}]

StructuredDraws == {20, 100}

\* the places of a page that consume draws
LdPlaces(page) ==
    {pl \in UNION {{<<s, i>> : i \in 1..Len(page.scripts[s].items)} :
                      s \in 1..Len(page.scripts)} :
        LET data == page.scripts[pl[1]].items[pl[2]]
        IN  /\ _parse_structured_event(data, 0).st = "event"
            /\ NeedsAttendeeDraw(data)}

TextPlaces(page) ==
    {i \in 1..Len(page.texts) :
        _parse_event_from_text(page.texts[i], 0, NoDraw).st = "event"}

LinkPlaces(page) == {i \in 1..Len(page.anchors) : IsEventAnchor(page.anchors[i])}

DrawTables(page) ==
    [ld   : [LdPlaces(page) -> StructuredDraws],
     text : [TextPlaces(page) -> TextDraws],
     link : [LinkPlaces(page) -> LinkDraws]]

RandomDraws(net) ==
    [main : DrawTables(net.main.page), secondary : DrawTables(net.secondary.page)]

SaveOutcomes == {"ok", "open_fails", "write_fails"}

(***************************************************************************)
(* The state machine: get_events calls, one after the other, and the clock *)
(***************************************************************************)
MaxCalls == 2

MaxTicks == 2

\* the processes that share the cache file
NumProcesses == 2

Procs == 1..NumProcesses

\* a process that is not inside get_events
IdleProc ==
    [pc |-> "idle", force_refresh |-> FALSE, saw |-> "none", events |-> <<>>,
     stamp |-> <<>>, overlapped |-> FALSE, raised |-> FALSE, ret |-> <<>>,
     source |-> "none"]

\* 2026-11-03T10:00:00
StartTime == DaysFromCivil(2026, 11, 3) * SecondsPerDay + 10 * 3600

\* the clock advances by one minute, half an hour or a day
TickSteps == {60, 30 * 60, SecondsPerDay}

\* the network of a call that fetched nothing
NoNet == [main |-> FetchFailed, secondary |-> FetchFailed]

NoCall ==
    [valid |-> FALSE, force_refresh |-> FALSE, time |-> 0, before |-> FileAbsent,
     raised |-> FALSE, ret |-> <<>>, source |-> "none", scrape |-> NoScrape,
     save |-> "none", net |-> NoNet]

NoPrev ==
    [valid |-> FALSE, force_refresh |-> FALSE, time |-> 0, ret |-> <<>>]

Init ==
    /\ now = StartTime
    /\ cache = FileAbsent
    /\ last = NoCall
    /\ prev = NoPrev
    /\ ncalls = 0
    /\ nticks = 0
    /\ procs = [p \in Procs |-> IdleProc]

\* what a call that gave r leaves behind
Returned(force_refresh, net, r) ==
    /\ cache' = r.file
    /\ last' = [valid |-> TRUE, force_refresh |-> force_refresh, time |-> now,
                before |-> cache, raised |-> r.raised, ret |-> r.ret,
                source |-> r.source, scrape |-> r.scrape, save |-> r.save,
                net |-> IF r.scrape.fetches = 0 THEN NoNet ELSE net]
    /\ prev' = [valid |-> last.valid, force_refresh |-> last.force_refresh,
                time |-> last.time, ret |-> last.ret]

\* a call whose scrape, if it comes to it, gives scrape
CallOn(forces, ios, net, scrape, fallback) ==
    \E force_refresh \in forces, io \in ios :
        Returned(force_refresh, net,
                 get_events(force_refresh, cache, now, io, scrape, fallback))

\* the calls at this time
CallAt(forces, networks, ios, fallback) ==
    \E net \in networks :
        \E rnd \in RandomDraws(net) :
            CallOn(forces, ios, net, _scrape_facebook_events(net, now, rnd),
                   fallback)

\* one call of get_events, its inputs drawn from the given sets
Call(forces, networks, ios) ==
    /\ CallAt(forces, networks, ios, _get_fallback_events(now))
    /\ ncalls' = ncalls + 1
    /\ UNCHANGED <<now, nticks, procs>>

GetEvents ==
    /\ ncalls < MaxCalls
    /\ Call(BOOLEAN, Networks(MainPages, SecondaryPages), SaveOutcomes)

\* the first call after deployment, on any of the wide pages
FirstGetEvents ==
    /\ ncalls = 0
    /\ Call({TRUE}, Networks(WideMainPages, WideSecondaryPages), {"ok"})

Tick ==
    /\ nticks < MaxTicks
    /\ \E d \in TickSteps : now' = now + d
    /\ nticks' = nticks + 1
    /\ UNCHANGED <<cache, last, prev, ncalls, procs>>

Next == GetEvents \/ Tick

Spec == Init /\ [][Next]_vars

PipelineNext == FirstGetEvents \/ Tick

PipelineSpec == Init /\ [][PipelineNext]_vars

(***************************************************************************)
(* Processes that run get_events side by side on one cache file.  A call   *)
(* is taken apart at the places where it touches the file: the load, the   *)
(* scrape (no file access), the open of the save, which truncates the      *)
(* file, and the json.dump of the save, after which the call returns.      *)
(***************************************************************************)
\* the pages served to the processes
SharedPages == {PageOddDates}

\* every process that has the file open for writing, other than p, has had
\* another process open or write the file in between
Disturb(p, changed) ==
    [q \in Procs |->
        IF q = p THEN changed
        ELSE IF procs[q].pc = "write"
             THEN [procs[q] EXCEPT !.overlapped = TRUE]
             ELSE procs[q]]

\* get_events is entered: lines 36-37
Start(p) ==
    /\ procs[p].pc \in {"idle", "done"}
    /\ ncalls < MaxCalls
    /\ \E force_refresh \in BOOLEAN :
           procs' = [procs EXCEPT
                        ![p] = [IdleProc EXCEPT
                                   !.pc = IF force_refresh THEN "scrape"
                                          ELSE "load",
                                   !.force_refresh = force_refresh]]
    /\ ncalls' = ncalls + 1
    /\ UNCHANGED <<now, cache, last, prev, nticks>>

\* what the load makes of the file as it is at this moment
Loaded(p, cached_events) ==
    IF Truthy(cached_events)
    THEN [procs[p] EXCEPT !.pc = "done", !.saw = cache.state,
                          !.ret = cached_events.events, !.source = "cache"]
    ELSE [procs[p] EXCEPT !.pc = "scrape", !.saw = cache.state]

\* cached_events = self._load_from_cache(); if cached_events: return
Load(p) ==
    /\ procs[p].pc = "load"
    /\ procs' = [procs EXCEPT
                    ![p] = Loaded(p, _load_from_cache(cache, now, FALSE))]
    /\ UNCHANGED <<now, cache, last, prev, ncalls, nticks>>

\* the list the call goes on with: the scraped events, or the fallback
Scraped(p, scrape, fallback) ==
    IF scrape.events = <<>>
    THEN [procs[p] EXCEPT !.pc = "save", !.events = fallback,
                          !.source = "fallback"]
    ELSE [procs[p] EXCEPT !.pc = "save", !.events = scrape.events,
                          !.source = "live"]

\* events = self._scrape_facebook_events(); if not events: fallback
Scrape(p) ==
    /\ procs[p].pc = "scrape"
    /\ \E net \in Networks(SharedPages, {}) :
           \E rnd \in RandomDraws(net) :
               procs' = [procs EXCEPT
                            ![p] = Scraped(p,
                                           _scrape_facebook_events(net, now, rnd),
                                           _get_fallback_events(now))]
    /\ UNCHANGED <<now, cache, last, prev, ncalls, nticks>>

\* _save_to_cache up to open(self.cache_file, 'w'): the timestamp is taken
\* and the file is truncated
SaveOpen(p) ==
    /\ procs[p].pc = "save"
    /\ cache' = FileCorrupt
    /\ procs' = Disturb(p, [procs[p] EXCEPT
                               !.pc = "write",
                               !.stamp = IsoFormat(now),
                               !.overlapped =
                                   \E q \in Procs \ {p} : procs[q].pc = "write"])
    /\ UNCHANGED <<now, last, prev, ncalls, nticks>>

\* What the file holds after the json.dump of p.  Alone on the file: the
\* snapshot of p.  When another process has opened or written the file since
\* p opened it, the bytes of the two are mixed: the snapshot of p, a file
\* that json.load rejects, or a file that json.load accepts and that has the
\* first bytes, with the timestamp, of the other and the events of p.
Written(p) ==
    IF ~procs[p].overlapped
    THEN {Snapshot(procs[p].stamp, procs[p].events)}
    ELSE {Snapshot(procs[p].stamp, procs[p].events), FileCorrupt}
         \cup (IF cache.state = "snapshot"
               THEN {Snapshot(cache.timestamp, procs[p].events)}
               ELSE {})

\* json.dump(data, f, indent=2), the file is closed, get_events returns
SaveWrite(p) ==
    /\ procs[p].pc = "write"
    /\ cache' \in Written(p)
    /\ procs' = Disturb(p, [procs[p] EXCEPT !.pc = "done",
                                            !.ret = procs[p].events])
    /\ UNCHANGED <<now, last, prev, ncalls, nticks>>

ConcurrentNext ==
    \/ \E p \in Procs : Start(p)
    \/ \E p \in Procs : Load(p)
    \/ \E p \in Procs : Scrape(p)
    \/ \E p \in Procs : SaveOpen(p)
    \/ \E p \in Procs : SaveWrite(p)
    \/ Tick

ConcurrentSpec == Init /\ [][ConcurrentNext]_vars

(***************************************************************************)
(* Properties of the orchestrator and the cache (checked under Spec)       *)
(***************************************************************************)
\* the age of a snapshot at time t, in seconds
Age(file, t) == t - FromIsoFormat(file.timestamp)

\* a snapshot that load can read
Readable(file) == file.state = "snapshot"

\* the last call went to the pipeline and the pipeline met an exception
PipelineRaised ==
    last.valid /\ last.scrape.status \in {"network_error", "parse_error"}

NonIncreasing(events) ==
    \A i, j \in 1..Len(events) :
        i < j => StrLeq(StartKey(events[j]), StartKey(events[i]))

NonDecreasing(events) ==
    \A i, j \in 1..Len(events) :
        i < j => StrLeq(StartKey(events[i]), StartKey(events[j]))

\* C1: when the fetch+extract pipeline meets a network or parse exception,
\* get_events returns the events of the snapshot on disk if one is readable
\* (whatever its age), and the fallback dataset only when none is.
C1_StaleCacheThenFallback ==
    PipelineRaised =>
        IF Readable(last.before)
        THEN last.ret = last.before.events
        ELSE last.ret = _get_fallback_events(last.time)

C3_FallbackNotPersisted ==
    (last.valid /\ last.source # "cache"
        /\ (last.scrape.status # "ok" \/ last.scrape.events = <<>>)) =>
        /\ last.ret = _get_fallback_events(last.time)
        /\ cache = last.before

\* C4: at every age, load(ignore_expiry=false) gives the events if and only
\* if a readable snapshot exists and its age is at most 30 minutes, and
\* load(ignore_expiry=true) gives the events of any readable snapshot.
C4_FreshIffWithinWindow ==
    /\ ~_load_from_cache(cache, now, FALSE).none
           <=> (Readable(cache) /\ Age(cache, now) <= cache_duration)
    /\ Readable(cache) =>
           _load_from_cache(cache, now, TRUE) =
               [none |-> FALSE, events |-> cache.events]

\* two calls without forced refresh, one after the other
TwoPlainCalls ==
    prev.valid /\ last.valid /\ ~prev.force_refresh /\ ~last.force_refresh

FirstListCachedAndFresh ==
    /\ TwoPlainCalls
    /\ Readable(last.before)
    /\ last.before.events = prev.ret
    /\ Age(last.before, last.time) <= cache_duration

EveryFetchRaisedNoCacheFile ==
    /\ last.valid
    /\ last.before.state = "absent"
    /\ last.scrape.status = "network_error"
    /\ last.scrape.fetches = 1

\* C6: when every fetch raises and no cache file exists, get_events, forced
\* or not, returns the fallback list: its nine events, non-increasing by
\* start_time.
C6_FallbackGuarantee ==
    EveryFetchRaisedNoCacheFile =>
        /\ last.ret # <<>>
        /\ Len(last.ret) = Len(real_events(last.time))
        /\ {last.ret[i] : i \in 1..Len(last.ret)}
               = {real_events(last.time)[i] : i \in 1..Len(last.ret)}
        /\ NonIncreasing(last.ret)

C6_Witness == EveryFetchRaisedNoCacheFile /\ ~last.force_refresh

(***************************************************************************)
(* Properties of the extraction pipeline (checked under PipelineSpec)      *)
(***************************************************************************)
\* the pipeline of the last call ran to its end
PipelineSucceeded == last.valid /\ last.scrape.status = "ok"

\* candidate k is the first of the candidates with its key
FirstOfKey(keys, k) == \A j \in 1..(k - 1) : keys[j] # keys[k]

\* out keeps, of the candidates, exactly the first one of each key
KeepsFirstOfEachKey(candidates, keys, out) ==
    /\ \A i, j \in 1..Len(out) : i # j => DedupKey(out[i]) # DedupKey(out[j])
    /\ \A i \in 1..Len(out) :
           \E k \in 1..Len(candidates) :
               candidates[k] = out[i] /\ FirstOfKey(keys, k)
    /\ \A k \in 1..Len(candidates) :
           FirstOfKey(keys, k) => \E i \in 1..Len(out) : out[i] = candidates[k]

\* C7: of the candidates of the live pipeline (main page before secondary
\* page; on a page structured data, then free text, then links), no two
\* with the same lower-cased trimmed name and the same first 10 characters of
\* start_time survive, a survivor is the first candidate of its key, and
\* every candidate that is the first of its key survives.
C7_DedupKeepsFirst ==
    PipelineSucceeded =>
        KeepsFirstOfEachKey(
            last.scrape.candidates,
            [k \in 1..Len(last.scrape.candidates) |->
                DedupKey(last.scrape.candidates[k])] \o <<>>,
            last.scrape.events)

\* the main page and the secondary page name "demo" on 2027-01-05, three
\* times in all, and the one of the main page, found first, has survived
C7_Witness ==
    /\ PipelineSucceeded
    /\ last.scrape.fetches = 2
    /\ Len(last.scrape.events) + 2 <= Len(last.scrape.candidates)
    /\ \E i \in 1..Len(last.scrape.events) :
           /\ last.scrape.events[i] = last.scrape.candidates[1]
           /\ last.scrape.events[i].name = S_demoPadded

\* C8: the list the live pipeline gives is non-decreasing by the start_time
\* string (malformed and empty ones ordered as strings), and the list the
\* fallback provider gives is non-increasing by start_time.
C8_SortOrders ==
    /\ PipelineSucceeded => NonDecreasing(last.scrape.events)
    /\ (last.valid /\ last.source = "fallback") => NonIncreasing(last.ret)

\* the pipeline has put "", an ISO timestamp and "soon" in order
C8_Witness ==
    /\ PipelineSucceeded
    /\ ~NonDecreasing(last.scrape.candidates)
    /\ \E i, j, k \in 1..Len(last.scrape.events) :
           /\ i < j /\ j < k
           /\ StartKey(last.scrape.events[i]) = <<>>
           /\ StartKey(last.scrape.events[j]) = S_Dec01T09
           /\ StartKey(last.scrape.events[k]) = S_soon

\* C9: in every record get_events returns, from any source, id is
\* generate_id(name).
C9_IdIsFunctionOfName ==
    last.valid =>
        \A i \in 1..Len(last.ret) :
            last.ret[i].id = _generate_event_id(last.ret[i].name)

\* a timestamp that is known: a non-empty str
Known(v) == v.t = "str" /\ v.s # <<>>

\* C10: every record get_events returns that has both a start_time and an
\* end_time has end_time >= start_time, whatever the random draws were.
C10_EndNotBeforeStart ==
    last.valid =>
        \A i \in 1..Len(last.ret) :
            (Known(last.ret[i].start_time) /\ Known(last.ret[i].end_time)) =>
                StrLeq(last.ret[i].start_time.s, last.ret[i].end_time.s)

\* C11: attendee_count of every record get_events returns is a non-negative
\* integer, whatever the capacity fields of a structured-data object hold
\* (negative numbers and non-numeric values included).
C11_AttendeeCountNotNegative ==
    last.valid =>
        \A i \in 1..Len(last.ret) : last.ret[i].attendee_count >= 0

\* the main page of the last call was fetched and searched for events
MainPageSearched == last.valid /\ last.net.main.ok

\* an object the structured-data strategy is to turn into a record
WellFormedEvent(item) ==
    /\ item.dict
    /\ item.type.t = "str"
    /\ Contains(S_event, Lower(item.type.s))
    /\ item.name.t \in {"str", "absent"}

\* a candidate record was built from the item
YieldsRecord(item, candidates) ==
    \E k \in 1..Len(candidates) :
        /\ candidates[k].name = GetOr(item.name, S_UnknownEvent).s
        /\ candidates[k].start_time = GetOr(item.startDate, <<>>)

\* C12: one malformed item of a JSON-LD list (a type that is no str, an item
\* that is no object) skips that item only: every well-formed event item of
\* every parseable script of the page, before or after it, yields a record,
\* and so do the free-text elements and the event links of the page.
C12_MalformedItemSkippedAlone ==
    MainPageSearched =>
        LET page == last.net.main.page
        IN  /\ \A s \in 1..Len(page.scripts) :
                  \A i \in 1..Len(page.scripts[s].items) :
                      WellFormedEvent(page.scripts[s].items[i]) =>
                          YieldsRecord(page.scripts[s].items[i],
                                       last.scrape.candidates)
            /\ \A i \in TextPlaces(page) :
                  \E k \in 1..Len(last.scrape.candidates) :
                      last.scrape.candidates[k].name =
                          _parse_event_from_text(page.texts[i], 0, NoDraw).event.name
            /\ \A i \in LinkPlaces(page) :
                  \E k \in 1..Len(last.scrape.candidates) :
                      last.scrape.candidates[k].name = Strip(page.anchors[i].text)

\* the last call was not forced and found a fresh snapshot with events
PlainCallOnFreshSnapshot ==
    /\ last.valid
    /\ ~last.force_refresh
    /\ Readable(last.before)
    /\ last.before.events # <<>>
    /\ Age(last.before, last.time) <= cache_duration

\* C13: a call without forced refresh that finds a fresh snapshot with at
\* least one event returns the snapshot's events, fetches nothing and leaves
\* the cache file (timestamp and events) as it was; a forced call goes to
\* the fetch whatever the cache file holds and is never served from it.
C13_CacheHitLeavesCacheAlone ==
    /\ PlainCallOnFreshSnapshot =>
           /\ last.ret = last.before.events
           /\ last.source = "cache"
           /\ last.scrape = NoScrape
           /\ cache = last.before
    /\ (last.valid /\ last.force_refresh) =>
           /\ last.scrape.fetches >= 1
           /\ last.source # "cache"

\* a cache hit on a snapshot written half an hour earlier: the timestamp on
\* disk is still the old one
C13_Witness ==
    /\ PlainCallOnFreshSnapshot
    /\ Age(last.before, last.time) = cache_duration
    /\ cache.timestamp = last.before.timestamp
    /\ cache.timestamp # IsoFormat(last.time)

\* the absolute URL of a link target: a target that starts with "/" is put
\* behind the site origin, an absolute target is kept
ResolvedUrl(href) == IF StartsWith(href, <<47>>) THEN S_Origin \o href ELSE href

\* C14: the record the link-pattern strategy builds from an event link has
\* the absolute URL of the link target as its event_url: a relative target
\* is prefixed with the site origin, an absolute one is kept as it is.
C14_EventUrlAbsolute ==
    MainPageSearched =>
        \A i \in LinkPlaces(last.net.main.page) :
            \E k \in 1..Len(last.scrape.candidates) :
                /\ last.scrape.candidates[k].name =
                       Strip(last.net.main.page.anchors[i].text)
                /\ last.scrape.candidates[k].event_url =
                       ResolvedUrl(last.net.main.page.anchors[i].href)

(***************************************************************************)
(* Properties of concurrent calls (checked under ConcurrentSpec)           *)
(***************************************************************************)
\* C15: with processes running get_events side by side on one cache file,
\* under every interleaving of their loads, truncations and writes, a call
\* that has returned raised nothing and returned a non-empty list, and a
\* call whose load met no file or an unreadable one was not served from the
\* cache.
C15_ConcurrentCallsReturnEvents ==
    \A p \in Procs :
        procs[p].pc = "done" =>
            /\ ~procs[p].raised
            /\ procs[p].ret # <<>>
            /\ procs[p].saw \in {"absent", "corrupt"} =>
                   procs[p].source # "cache"

\* one call loaded the file while it was truncated and has returned; the
\* write of another call overlapped with an open or a write
C15_Witness ==
    \E p, q \in Procs :
        /\ p # q
        /\ procs[p].pc = "done"
        /\ procs[p].saw = "corrupt"
        /\ procs[q].pc = "done"
        /\ procs[q].overlapped
        /\ cache.state = "corrupt"

====
